---- MODULE Spec2Model ----
(***************************************************************************)
(* yahoo-finance-symbols: the ingestion sweep (rust/build.rs) and the      *)
(* catalog client (rust/src/lib.rs).                                       *)
(*                                                                         *)
(* Three specifications share this module:                                 *)
(*   SpecIngest  save_symbols applied, run after run, to one Store file    *)
(*               against a fixed upstream listing;                         *)
(*   Spec        the client process: callers that read through             *)
(*               get_database_pool, search_symbols and update_database;    *)
(*   SpecQuery   the read operations applied to Stores of any content.     *)
(***************************************************************************)
EXTENDS Integers, Sequences, FiniteSets, TLC

(***************************************************************************)
(* Program constants and bounds                                            *)
(***************************************************************************)
\* build.rs:39  ["equity", "mutualfund", "etf", "index", "future", "currency"]
NumSectors == 6
\* build.rs:40  "ABCDEFGHIJKLMNOPQRSTUVWXYZ0123456789"
NumPrefixes == 36
\* the upstream listing holds at most this many table rows over all pages
MaxRows == 2

sectors == <<"equity", "mutualfund", "etf", "index", "future", "currency">>

search_set == <<"A", "B", "C", "D", "E", "F", "G", "H", "I", "J", "K", "L", "M",
                "N", "O", "P", "Q", "R", "S", "T", "U", "V", "W", "X", "Y", "Z",
                "0", "1", "2", "3", "4", "5", "6", "7", "8", "9">>

(***************************************************************************)
(* The upstream listing.  A table row of a page is the list of its cells;  *)
(* cell 0 and cell 3 may hold anchors.  A symbol or a name is a sequence   *)
(* of tokens (characters and entities), the empty string being << >>, so   *)
(* that entity decoding, lower-casing and substring search are computed.   *)
(***************************************************************************)
\* a row whose cell 0 holds no anchor: the parser falls back to the empty symbol
RowNoAnchor ==
  [ncells |-> 6, a0 |-> <<>>, name |-> <<"x">>, a3 |-> <<"Technology">>,
   asset |-> "Stocks", exch |-> "NMS"]
\* a row with an anchor, an entity-encoded name and no category anchor
RowAmp ==
  [ncells |-> 6, a0 |-> <<[data_symbol |-> << <<"A">> >>]>>,
   name |-> <<"B", "&amp;", "N">>, a3 |-> <<>>,
   asset |-> "ETF", exch |-> "PCX"]
\* the same symbol again with other fields, an exchange no enumeration knows
RowOther ==
  [ncells |-> 7, a0 |-> <<[data_symbol |-> << <<"A">> >>], [data_symbol |-> << <<"Z">> >>]>>,
   name |-> <<"x">>, a3 |-> <<"Technology">>,
   asset |-> "Stocks", exch |-> "ZZZ"]
\* a row with fewer than 6 cells (every page ends with one)
RowShort ==
  [ncells |-> 4, a0 |-> <<[data_symbol |-> << <<"A">> >>]>>, name |-> <<"x">>,
   a3 |-> <<>>, asset |-> "", exch |-> ""]

RowKinds == <<RowNoAnchor, RowAmp, RowOther>>

\* the (sector, prefix) pairs whose page is not empty upstream
ListedPairs == {<<1, 1>>, <<1, 2>>, <<2, 1>>}

Postings == [pair : ListedPairs, kind : 1..Len(RowKinds)]

RECURSIVE SeqsUpTo(_, _)
SeqsUpTo(S, n) ==
  IF n = 0 THEN {<<>>}
  ELSE LET shorter == SeqsUpTo(S, n - 1)
       IN shorter \cup {Append(q, x) : q \in {r \in shorter : Len(r) = n - 1}, x \in S}

Listings == SeqsUpTo(Postings, MaxRows)

RECURSIVE PageRows(_, _)
PageRows(listing, pair) ==
  IF listing = <<>> THEN <<>>
  ELSE LET rest == PageRows(Tail(listing), pair)
       IN IF Head(listing).pair = pair
          THEN <<RowKinds[Head(listing).kind]>> \o rest
          ELSE rest

\* the document the listing endpoint serves for (sector, prefix)
Document(listing, s, p) == PageRows(listing, <<s, p>>) \o <<RowShort>>

(***************************************************************************)
(* scrape_symbols: the parser (build.rs 67-111)                            *)
(***************************************************************************)
\* .select("a").next().map(|a| a.value().attr("data-symbol").unwrap_or_default())
\*   .unwrap_or_default()
parse_symbol(cell0) ==
  IF cell0 = <<>> THEN <<>>
  ELSE IF Head(cell0).data_symbol = <<>> THEN <<>> ELSE Head(Head(cell0).data_symbol)

\* .select("a").next().map(|a| a.inner_html()...).unwrap_or("N/A")
parse_category(cell3) == IF cell3 = <<>> THEN "N/A" ELSE Head(cell3)

parse_row(row) ==
  [symbol |-> parse_symbol(row.a0), name |-> row.name,
   category |-> parse_category(row.a3),
   asset_class |-> row.asset, exchange |-> row.exch]

\* if columns.len() >= 6
row_min_cells(row) == row.ncells >= 6

RECURSIVE parse_document(_)
parse_document(document) ==
  IF document = <<>> THEN <<>>
  ELSE IF row_min_cells(Head(document))
       THEN <<parse_row(Head(document))>> \o parse_document(Tail(document))
       ELSE parse_document(Tail(document))

\* the request either fails (send()? / text()?) or yields the parsed page
scrape_symbols(l, s, p, ok) ==
  IF ok THEN [err |-> "none", docs |-> parse_document(Document(l, s, p))]
  ELSE [err |-> "FetchError", docs |-> <<>>]

(***************************************************************************)
(* The Store: a file holding the table `symbols`, rows in insertion order  *)
(***************************************************************************)
NoFile == [file |-> FALSE, table |-> FALSE, rows |-> <<>>]

\* Connection::open creates the file when it is absent
connection_open(f) == IF f.file THEN f ELSE [file |-> TRUE, table |-> FALSE, rows |-> <<>>]

create_table_drop(f) == [f EXCEPT !.table = TRUE, !.rows = <<>>]
\* CREATE TABLE IF NOT EXISTS symbols (symbol TEXT PRIMARY KEY, ...)
create_table(f) == IF f.table THEN f ELSE [f EXCEPT !.table = TRUE, !.rows = <<>>]

decode_token(t) ==
  CASE t = "&amp;" -> "&"
    [] t = "&lt;" -> "<"
    [] t = "&gt;" -> ">"
    [] OTHER -> t

\* html_escape::decode_html_entities
decode_html_entities(name) == [i \in 1..Len(name) |-> decode_token(name[i])]

HasKey(rows, symbol) == \E i \in 1..Len(rows) : rows[i].symbol = symbol

document_exists_off_by_one(rows, doc) ==
  Cardinality({i \in 1..Len(rows) : rows[i].symbol = doc.symbol}) > 1
\* SELECT COUNT(*) FROM symbols WHERE symbol = ?  ...  count > 0
document_exists_in_db(rows, doc) ==
  Cardinality({i \in 1..Len(rows) : rows[i].symbol = doc.symbol}) > 0

\* INSERT INTO symbols ... : the primary key refuses a symbol already stored
insert_document(rows, doc) ==
  IF HasKey(rows, doc.symbol)
  THEN [err |-> "DuplicateKey", rows |-> rows]
  ELSE [err |-> "none",
        rows |-> Append(rows, [symbol |-> doc.symbol,
                               name |-> decode_html_entities(doc.name),
                               category |-> doc.category,
                               asset_class |-> doc.asset_class,
                               exchange |-> doc.exchange])]

Upsert(rows, doc) ==
  [i \in 1..Len(rows) |->
     IF rows[i].symbol = doc.symbol
     THEN [symbol |-> doc.symbol, name |-> decode_html_entities(doc.name),
           category |-> doc.category, asset_class |-> doc.asset_class,
           exchange |-> doc.exchange]
     ELSE rows[i]]

save_doc_upsert(rows, doc) ==
  IF ~document_exists_in_db(rows, doc)
  THEN LET r == insert_document(rows, doc)
       IN [err |-> r.err, rows |-> r.rows,
           inserted |-> IF r.err = "none" THEN 1 ELSE 0]
  ELSE [err |-> "none", rows |-> Upsert(rows, doc), inserted |-> 0]
\* if !document_exists_in_db(&conn, &doc) { insert_document(&conn, &doc)?; }
save_doc(rows, doc) ==
  IF ~document_exists_in_db(rows, doc)
  THEN LET r == insert_document(rows, doc)
       IN [err |-> r.err, rows |-> r.rows,
           inserted |-> IF r.err = "none" THEN 1 ELSE 0]
  ELSE [err |-> "none", rows |-> rows, inserted |-> 0]

\* for doc in result { ... } ; the first insert error leaves the loop
RECURSIVE save_docs(_, _, _)
save_docs(rows, docs, n) ==
  IF docs = <<>> THEN [err |-> "none", rows |-> rows, inserted |-> n]
  ELSE LET r == save_doc(rows, Head(docs))
       IN IF r.err # "none"
          THEN [err |-> r.err, rows |-> r.rows, inserted |-> n]
          ELSE save_docs(r.rows, Tail(docs), n + r.inserted)

save_pair_skip(rows, result) == save_docs(rows, result.docs, 0)
\* one turn of the inner loop, given what scrape_symbols returned:
\* `let result = scrape_symbols(...)?; for doc in result { ... }`
save_pair(rows, result) ==
  IF result.err # "none"
  THEN [err |-> result.err, rows |-> rows, inserted |-> 0]
  ELSE save_docs(rows, result.docs, 0)

\* position of (s, p) in the sector-major sweep, 1..216
PairIndex(s, p) == (s - 1) * NumPrefixes + p

SweepOrder == [i \in 1..(NumSectors * NumPrefixes) |->
                 <<((i - 1) \div NumPrefixes) + 1, ((i - 1) % NumPrefixes) + 1>>]

(***************************************************************************)
(* keys: the filter vocabulary                                             *)
(***************************************************************************)
AssetClasses == {"All", "Stocks", "ETFs", "MutualFunds", "Indices", "Futures",
                 "Currencies", "Cryptocurrencies"}
Categories == {"All", "Technology"}
Exchanges == {"All", "NASDAQ"}

asset_class_literal(a) ==
  CASE a = "Stocks" -> "Stocks"
    [] a = "ETFs" -> "ETF"
    [] a = "MutualFunds" -> "Mutual Fund"
    [] a = "Indices" -> "Index"
    [] a = "Futures" -> "Futures"
    [] a = "Currencies" -> "Currency"
    [] a = "Cryptocurrencies" -> "Cryptocurrency"

category_literal(c) == CASE c = "Technology" -> "Technology"

exchange_literal(e) == CASE e = "NASDAQ" -> "NMS"

\* SELECT DISTINCT <column> FROM symbols
get_distinct_asset_classes(rows) == {rows[i].asset_class : i \in 1..Len(rows)}
get_distinct_categories(rows) == {rows[i].category : i \in 1..Len(rows)}
get_distinct_exchanges(rows) == {rows[i].exchange : i \in 1..Len(rows)}

\* to_string_vec: "All" expands to the values the Store holds, a concrete
\* variant to its own literal
asset_class_to_string_vec(a, rows) ==
  IF a = "All" THEN get_distinct_asset_classes(rows) ELSE {asset_class_literal(a)}
category_to_string_vec(c, rows) ==
  IF c = "All" THEN get_distinct_categories(rows) ELSE {category_literal(c)}
exchange_to_string_vec(e, rows) ==
  IF e = "All" THEN get_distinct_exchanges(rows) ELSE {exchange_literal(e)}

(***************************************************************************)
(* lib.rs: the read operations, as functions of the table's rows           *)
(***************************************************************************)
RECURSIVE Select(_, _, _, _)
\* SELECT * FROM symbols WHERE asset_class IN (..) AND category IN (..) AND exchange IN (..)
Select(rows, acs, cats, exs) ==
  IF rows = <<>> THEN <<>>
  ELSE LET r == Head(rows)
           rest == Select(Tail(rows), acs, cats, exs)
       IN IF r.asset_class \in acs /\ r.category \in cats /\ r.exchange \in exs
          THEN <<r>> \o rest
          ELSE rest

get_symbols_misbound(rows, a, c, e) ==
  Select(rows, asset_class_to_string_vec(a, rows),
         asset_class_to_string_vec(a, rows), exchange_to_string_vec(e, rows))
get_symbols(rows, a, c, e) ==
  Select(rows, asset_class_to_string_vec(a, rows),
         category_to_string_vec(c, rows), exchange_to_string_vec(e, rows))

\* SELECT COUNT(*) FROM symbols
get_symbols_count(rows) == Len(rows)

\* SELECT * FROM symbols WHERE symbol = ? ; query_row
get_symbol(rows, symbol) ==
  IF HasKey(rows, symbol)
  THEN [out |-> "Ok", value |-> rows[CHOOSE i \in 1..Len(rows) : rows[i].symbol = symbol]]
  ELSE [out |-> "Err", value |-> "QueryReturnedNoRows"]

to_lower_token(t) ==
  CASE t = "A" -> "a"
    [] t = "B" -> "b"
    [] t = "N" -> "n"
    [] t = "X" -> "x"
    [] t = "Z" -> "z"
    [] OTHER -> t

to_lowercase(str) == [i \in 1..Len(str) |-> to_lower_token(str[i])]

contains(hay, needle) ==
  \E i \in 1..(Len(hay) + 1) :
    /\ i + Len(needle) - 1 <= Len(hay)
    /\ SubSeq(hay, i, i + Len(needle) - 1) = needle

SearchLabels == {"Equity", "ETF", "Mutual Fund", "Index", "Currency", "Futures", "Crypto"}

\* the match of search_symbols; "panic" stands for the `_ => panic!(...)` arm
search_label(label) ==
  CASE label = "Equity" -> "Stocks"
    [] label = "ETF" -> "ETFs"
    [] label = "Mutual Fund" -> "MutualFunds"
    [] label = "Index" -> "Indices"
    [] label = "Currency" -> "Currencies"
    [] label = "Futures" -> "Futures"
    [] label = "Crypto" -> "Cryptocurrencies"
    [] OTHER -> "panic"

\* the filter and the collect into a HashMap: a later pair replaces an earlier
\* one with the same key
search_filter(tickers, query) ==
  LET hit(tc) == \/ contains(to_lowercase(tc.symbol), to_lowercase(query))
                 \/ contains(to_lowercase(tc.name), to_lowercase(query))
      hits == {i \in 1..Len(tickers) : hit(tickers[i])}
      last(k) == CHOOSE i \in hits :
                   /\ tickers[i].symbol = k
                   /\ \A j \in hits : tickers[j].symbol = k => j <= i
  IN [k \in {tickers[i].symbol : i \in hits} |-> tickers[last(k)].name]

\* get_symbols_df: the records transposed into five named columns
get_symbols_df(rows) ==
  LET symbols == get_symbols(rows, "All", "All", "All")
  IN [symbol |-> [i \in 1..Len(symbols) |-> symbols[i].symbol],
      name |-> [i \in 1..Len(symbols) |-> symbols[i].name],
      category |-> [i \in 1..Len(symbols) |-> symbols[i].category],
      asset_class |-> [i \in 1..Len(symbols) |-> symbols[i].asset_class],
      exchange |-> [i \in 1..Len(symbols) |-> symbols[i].exchange]]

\* The requests a caller can make once it holds a connection.
ReadRequests ==
  {[op |-> "get_symbol", symbol |-> y] : y \in {<<"A">>, <<"Q">>}}
  \cup {[op |-> "get_symbols", a |-> t[1], c |-> t[2], e |-> t[3]] :
          t \in {<<"All", "All", "All">>, <<"Stocks", "Technology", "NASDAQ">>,
                 <<"ETFs", "All", "All">>}}
  \cup {[op |-> "get_symbols_count"], [op |-> "get_symbols_df"]}
  \cup {[op |-> "search_symbols", query |-> q, label |-> l] :
          q \in {<<"b", "&">>, <<"A">>}, l \in {"Equity", "ETF"}}

\* What a request returns when run on a connection to file f.  Without the
\* table, prepare() fails: the operations that .expect() it panic, while
\* get_symbols_count propagates the error with `?`.
run_request(f, req) ==
  IF ~f.table
  THEN IF req.op = "get_symbols_count"
       THEN [out |-> "Err", value |-> "no such table"]
       ELSE [out |-> "panic", value |-> "no such table"]
  ELSE CASE req.op = "get_symbol" -> get_symbol(f.rows, req.symbol)
         [] req.op = "get_symbols" ->
              [out |-> "Ok", value |-> get_symbols(f.rows, req.a, req.c, req.e)]
         [] req.op = "get_symbols_count" ->
              [out |-> "Ok", value |-> get_symbols_count(f.rows)]
         [] req.op = "get_symbols_df" ->
              [out |-> "Ok", value |-> get_symbols_df(f.rows)]
         [] req.op = "search_symbols" ->
              [out |-> "Ok",
               value |-> search_filter(
                           get_symbols(f.rows, search_label(req.label), "All", "All"),
                           req.query)]

(***************************************************************************)
(* State                                                                   *)
(***************************************************************************)
\* callers (tasks) of the client library
NumCallers == 2
\* update_database is called at most this often
MaxUpdates == 1

Callers == 1..NumCallers

VARIABLES
  \* ---- the ingestion run (build.rs) ----
  listing,     \* the upstream listing, fixed for the whole behaviour
  db,          \* the Store file save_symbols is run against
  sector,      \* index of the outer loop, 1..6
  c1,          \* index of the inner loop, 1..36
  status,      \* "idle", "running", or how save_symbols returned
  fetchLog,    \* the (sector, prefix) pairs this run has requested, in order
  lastOk,      \* whether the latest request of this run succeeded
  inserted,    \* rows this run has inserted
  firstCount,  \* COUNT(*) when a run first returned Ok, -1 before
  \* ---- the client process (lib.rs) ----
  path,          \* the file "symbols.db" names: index into inodes, 0 when absent
  inodes,        \* every file ever created, unlinked ones included
  complete,      \* the inodes holding a whole catalog (snapshot or finished sweep)
  DATABASE_POOL, \* the OnceCell: 0 when empty, else the inode its pool is open on
  pc,            \* per caller: where it stands
  op,            \* per caller: "none", "read" or "update"
  conn,          \* per caller: inode of the Connection save_symbols opened
  pool,          \* per caller: inode of the Pool initialize_database built
  isect,         \* per caller: sector index of its running save_symbols
  panic,         \* per caller: "none" or why it panicked
  existed,       \* per caller: what db_path.exists() answered in initialize_database
  dl,            \* per caller: "none", "ok" or "failed", its download_file
  sawSet,        \* per caller: whether the cell was set when its call began
  after,         \* per caller: lastRebuilt when its call began
  updates,       \* calls of update_database so far
  lastRebuilt,   \* inode built by the latest update_database that returned Ok, 0 if none
  result,        \* per caller: what its operation is returning, NoResult otherwise
  \* ---- the read operations on a given Store ----
  store,         \* the Store file the requests are run on
  answer         \* the latest request and what it returned

ingestVars == <<listing, db, sector, c1, status, fetchLog, lastOk, inserted, firstCount>>

clientVars == <<path, inodes, complete, DATABASE_POOL, pc, op, conn, pool, isect,
                panic, existed, dl, sawSet, after, updates, lastRebuilt, result>>

queryVars == <<store, answer>>

vars == <<ingestVars, clientVars, queryVars>>

NoAnswer == [req |-> [op |-> "none"], out |-> "none", value |-> "none"]

\* the query variables while no query harness runs
QueryIdle ==
  /\ store = NoFile
  /\ answer = NoAnswer

\* op: "read", "update_database" or "search_symbols" (label: its unknown label);
\* out: "Ok", "Err" or "panic"; inode: the file that served it; whole: whether
\* that file held a whole catalog; after/rebuilt: lastRebuilt when the call
\* began / when it ended
NoResult ==
  [op |-> "none", label |-> "none", out |-> "none", value |-> "none", inode |-> 0,
   whole |-> TRUE, after |-> 0, rebuilt |-> 0]

\* the client process before its first call, no file on disk
ClientIdle ==
  /\ path = 0
  /\ inodes = <<>>
  /\ complete = {}
  /\ DATABASE_POOL = 0
  /\ pc = [t \in Callers |-> "idle"]
  /\ op = [t \in Callers |-> "none"]
  /\ conn = [t \in Callers |-> 0]
  /\ pool = [t \in Callers |-> 0]
  /\ isect = [t \in Callers |-> 0]
  /\ panic = [t \in Callers |-> "none"]
  /\ existed = [t \in Callers |-> FALSE]
  /\ dl = [t \in Callers |-> "none"]
  /\ sawSet = [t \in Callers |-> FALSE]
  /\ after = [t \in Callers |-> 0]
  /\ updates = 0
  /\ lastRebuilt = 0
  /\ result = [t \in Callers |-> NoResult]

\* the ingestion variables while no ingestion harness runs
IngestIdle ==
  /\ db = NoFile
  /\ sector = 1
  /\ c1 = 1
  /\ status = "idle"
  /\ fetchLog = <<>>
  /\ lastOk = TRUE
  /\ inserted = 0
  /\ firstCount = -1

(***************************************************************************)
(* save_symbols, one (sector, prefix) pair per step                        *)
(***************************************************************************)
IngestInit ==
  /\ listing \in Listings
  /\ IngestIdle
  /\ ClientIdle
  /\ QueryIdle

\* build.rs 24-40: open the file, create the table, enter the loops
Call_save_symbols ==
  /\ status # "running"
  /\ db' = create_table(connection_open(db))
  /\ sector' = 1
  /\ c1' = 1
  /\ status' = "running"
  /\ fetchLog' = <<>>
  /\ lastOk' = TRUE
  /\ inserted' = 0
  /\ UNCHANGED <<listing, firstCount, clientVars, queryVars>>

\* build.rs 42-55: one turn of the inner loop, and the return after the last
ScrapePair(ok) ==
  /\ status = "running"
  /\ LET r == save_pair(db.rows, scrape_symbols(listing, sector, c1, ok))
         last == sector = NumSectors /\ c1 = NumPrefixes
     IN /\ db' = [db EXCEPT !.rows = r.rows]
        /\ inserted' = inserted + r.inserted
        /\ fetchLog' = Append(fetchLog, <<sector, c1>>)
        /\ lastOk' = ok
        /\ IF r.err # "none"
           THEN /\ status' = r.err
                /\ UNCHANGED <<sector, c1, firstCount>>
           ELSE /\ status' = IF last THEN "Ok" ELSE "running"
                /\ c1' = IF last THEN c1 ELSE IF c1 = NumPrefixes THEN 1 ELSE c1 + 1
                /\ sector' = IF ~last /\ c1 = NumPrefixes THEN sector + 1 ELSE sector
                /\ firstCount' = IF last /\ firstCount = -1 THEN Len(r.rows)
                                 ELSE firstCount
  /\ UNCHANGED <<listing, clientVars, queryVars>>

FetchOk == ScrapePair(TRUE)

FetchFails == ScrapePair(FALSE)

IngestNext == Call_save_symbols \/ FetchOk \/ FetchFails

SpecIngest == IngestInit /\ [][IngestNext]_vars

(***************************************************************************)
(* The client process (lib.rs).  A caller's operation is a sequence of     *)
(* steps; other callers may run between two steps.                         *)
(***************************************************************************)
\* the listing the client's own ingestion meets
ClientListing == <<[pair |-> <<1, 1>>, kind |-> 1], [pair |-> <<2, 1>>, kind |-> 3]>>

\* what scrape_symbols returns for each pair of the sweep when the request succeeds
ClientPages ==
  [i \in 1..(NumSectors * NumPrefixes) |->
     scrape_symbols(ClientListing, SweepOrder[i][1], SweepOrder[i][2], TRUE)]

FetchError == [err |-> "FetchError", docs |-> <<>>]

\* every way the sweep of sector s can end from prefix p on: the request for p
\* fails, or an insert fails, or the sweep goes on; the outcome without an error
\* is the one where all requests succeeded
RECURSIVE sweep_sector(_, _, _)
sweep_sector(rows, s, p) ==
  IF p > NumPrefixes THEN {[err |-> "none", rows |-> rows, inserted |-> 0]}
  ELSE {save_pair(rows, FetchError)}
       \cup UNION {IF r.err # "none" THEN {r} ELSE sweep_sector(r.rows, s, p + 1) :
                    r \in {save_pair(rows, ClientPages[PairIndex(s, p)])}}

\* the rows a whole run of save_symbols leaves, sector by sector
RECURSIVE sweep_all(_, _)
sweep_all(rows, s) ==
  IF s > NumSectors THEN rows
  ELSE sweep_all((CHOOSE r \in sweep_sector(rows, s, 1) : r.err = "none").rows, s + 1)

\* the prebuilt snapshot at the remote location: the Store of a whole ingestion run
RemoteSnapshot == [file |-> TRUE, table |-> TRUE, rows |-> sweep_all(<<>>, 1)]

ClientInit ==
  /\ listing = ClientListing
  /\ IngestIdle
  /\ QueryIdle
  /\ pc = [t \in Callers |-> "idle"]
  /\ op = [t \in Callers |-> "none"]
  /\ conn = [t \in Callers |-> 0]
  /\ pool = [t \in Callers |-> 0]
  /\ isect = [t \in Callers |-> 0]
  /\ panic = [t \in Callers |-> "none"]
  /\ existed = [t \in Callers |-> FALSE]
  /\ dl = [t \in Callers |-> "none"]
  /\ sawSet = [t \in Callers |-> FALSE]
  /\ after = [t \in Callers |-> 0]
  /\ DATABASE_POOL = 0
  /\ updates = 0
  /\ lastRebuilt = 0
  /\ result = [t \in Callers |-> NoResult]
  \* the file is absent, or an earlier process left a whole catalog
  /\ \/ path = 0 /\ inodes = <<>> /\ complete = {}
     \/ path = 1 /\ inodes = <<RemoteSnapshot>> /\ complete = {1}

\* what a caller holds only while an operation runs
locals == <<op, conn, pool, isect, existed, dl, sawSet, after>>

\* the operation of caller t is over: it hands back r, or unwinds on a panic
Leave(t, to, why, r) ==
  /\ pc' = [pc EXCEPT ![t] = to]
  /\ panic' = [panic EXCEPT ![t] = why]
  /\ result' = [result EXCEPT ![t] = r]
  /\ op' = [op EXCEPT ![t] = "none"]
  /\ conn' = [conn EXCEPT ![t] = 0]
  /\ pool' = [pool EXCEPT ![t] = 0]
  /\ isect' = [isect EXCEPT ![t] = 0]
  /\ existed' = [existed EXCEPT ![t] = FALSE]
  /\ dl' = [dl EXCEPT ![t] = "none"]
  /\ sawSet' = [sawSet EXCEPT ![t] = FALSE]
  /\ after' = [after EXCEPT ![t] = 0]

Outcome(t, o, label, out, value, ino, built) ==
  [op |-> o, label |-> label, out |-> out, value |-> value, inode |-> ino,
   whole |-> (ino = 0 \/ ino \in complete), after |-> after[t], rebuilt |-> built]

pool_is_none_always(cell) == TRUE
\* DATABASE_POOL.get().is_none()
pool_is_none(cell) == cell = 0

\* a read operation begins: get_database_pool tests the cell
Call_read(t, o) ==
  /\ pc[t] = "idle"
  /\ op' = [op EXCEPT ![t] = o]
  /\ sawSet' = [sawSet EXCEPT ![t] = DATABASE_POOL # 0]
  /\ after' = [after EXCEPT ![t] = lastRebuilt]
  /\ pc' = [pc EXCEPT ![t] = IF pool_is_none(DATABASE_POOL) THEN "exists" ELSE "query"]
  /\ UNCHANGED <<ingestVars, queryVars, path, inodes, complete, DATABASE_POOL, conn, pool,
                 isect, panic, existed, dl, updates, lastRebuilt, result>>

\* get_symbol, get_symbols, get_symbols_count, get_symbols_df, and search_symbols
\* with a label of the fixed set: all begin with get_database_pool.  Which of them
\* it is, and with which arguments, matters from Query on and is drawn there.
Call_get(t) == Call_read(t, "read")

\* search_symbols with any other label
Call_search_symbols_unknown(t) ==
  /\ pc[t] = "idle"
  /\ \E label \in {"Bond"} :
       /\ search_label(label) = "panic"
       /\ Leave(t, "panicked", "Asset class must be one of",
                Outcome(t, "search_symbols", label, "panic", "none", 0, lastRebuilt))
  /\ UNCHANGED <<ingestVars, queryVars, path, inodes, complete, DATABASE_POOL, updates,
                 lastRebuilt>>

\* initialize_database: if !db_path.exists()
Init_exists(t) ==
  /\ pc[t] = "exists"
  /\ existed' = [existed EXCEPT ![t] = path # 0]
  /\ pc' = [pc EXCEPT ![t] = IF path # 0 THEN "pool_new" ELSE "download"]
  /\ UNCHANGED <<ingestVars, queryVars, path, inodes, complete, DATABASE_POOL, op, conn, pool,
                 isect, panic, dl, sawSet, after, updates, lastRebuilt, result>>

\* download_file(url, &db_path).await succeeds: the snapshot is stored verbatim
Download_ok(t) ==
  /\ pc[t] = "download"
  /\ IF path = 0
     THEN /\ inodes' = Append(inodes, RemoteSnapshot)
          /\ path' = Len(inodes) + 1
          /\ complete' = complete \cup {Len(inodes) + 1}
     ELSE /\ inodes' = [inodes EXCEPT ![path] = RemoteSnapshot]
          /\ complete' = complete \cup {path}
          /\ UNCHANGED path
  /\ dl' = [dl EXCEPT ![t] = "ok"]
  /\ pc' = [pc EXCEPT ![t] = "pool_new"]
  /\ UNCHANGED <<ingestVars, queryVars, DATABASE_POOL, op, conn, pool, isect, panic, existed,
                 sawSet, after, updates, lastRebuilt, result>>

\* download_file fails: fall back to save_symbols
Download_fails(t) ==
  /\ pc[t] = "download"
  /\ dl' = [dl EXCEPT ![t] = "failed"]
  /\ pc' = [pc EXCEPT ![t] = "save_open"]
  /\ UNCHANGED <<ingestVars, queryVars, path, inodes, complete, DATABASE_POOL, op, conn, pool,
                 isect, panic, existed, sawSet, after, updates, lastRebuilt, result>>

\* save_symbols: Connection::open and CREATE TABLE IF NOT EXISTS
Save_open(t) ==
  /\ pc[t] = "save_open"
  /\ IF path = 0
     THEN /\ inodes' = Append(inodes, create_table(connection_open(NoFile)))
          /\ path' = Len(inodes) + 1
          /\ conn' = [conn EXCEPT ![t] = Len(inodes) + 1]
     ELSE /\ inodes' = [inodes EXCEPT ![path] = create_table(connection_open(@))]
          /\ conn' = [conn EXCEPT ![t] = path]
          /\ UNCHANGED path
  /\ isect' = [isect EXCEPT ![t] = 1]
  /\ pc' = [pc EXCEPT ![t] = "sweep"]
  /\ UNCHANGED <<ingestVars, queryVars, complete, DATABASE_POOL, op, pool, panic, existed, dl,
                 sawSet, after, updates, lastRebuilt, result>>

\* save_symbols runs the 36 requests of its next sector through the caller's
\* connection.  An error ends save_symbols: initialize_database .expect()s it,
\* update_database returns it.  After the last sector save_symbols returns Ok(()):
\* initialize_database goes on to build the pool, update_database returns Ok(()).
Sweep(t) ==
  /\ pc[t] = "sweep"
  /\ \E r \in sweep_sector(inodes[conn[t]].rows, isect[t], 1) :
       /\ inodes' = [inodes EXCEPT ![conn[t]].rows = r.rows]
       /\ IF r.err # "none"
          THEN /\ IF op[t] = "update"
                  THEN Leave(t, "return", panic[t],
                             Outcome(t, "update_database", "none", "Err", r.err,
                                     conn[t], lastRebuilt))
                  ELSE Leave(t, "panicked", "Failed to Get Symbols Database", NoResult)
               /\ UNCHANGED <<complete, lastRebuilt>>
          ELSE IF isect[t] < NumSectors
               THEN /\ isect' = [isect EXCEPT ![t] = @ + 1]
                    /\ UNCHANGED <<complete, lastRebuilt, pc, panic, result, op, conn,
                                   pool, existed, dl, sawSet, after>>
               ELSE /\ complete' = complete \cup {conn[t]}
                    /\ IF op[t] = "update"
                       THEN /\ lastRebuilt' = conn[t]
                            /\ Leave(t, "return", panic[t],
                                     [Outcome(t, "update_database", "none", "Ok", "none",
                                              conn[t], conn[t])
                                        EXCEPT !.whole = TRUE])
                       ELSE /\ pc' = [pc EXCEPT ![t] = "pool_new"]
                            /\ UNCHANGED <<locals, panic, lastRebuilt, result>>
  /\ UNCHANGED <<ingestVars, queryVars, path, DATABASE_POOL, updates>>

\* Pool::new(SqliteConnectionManager::file(db_file)): the pool's connections are
\* opened on the file the path names now, which is created when absent
Pool_new(t) ==
  /\ pc[t] = "pool_new"
  /\ IF path = 0
     THEN /\ inodes' = Append(inodes, connection_open(NoFile))
          /\ path' = Len(inodes) + 1
          /\ pool' = [pool EXCEPT ![t] = Len(inodes) + 1]
     ELSE /\ pool' = [pool EXCEPT ![t] = path]
          /\ UNCHANGED <<inodes, path>>
  /\ pc' = [pc EXCEPT ![t] = "pool_set"]
  /\ UNCHANGED <<ingestVars, queryVars, complete, DATABASE_POOL, op, conn, isect, panic, existed,
                 dl, sawSet, after, updates, lastRebuilt, result>>

\* DATABASE_POOL.set(pool).unwrap()
Pool_set(t) ==
  /\ pc[t] = "pool_set"
  /\ IF DATABASE_POOL = 0
     THEN /\ DATABASE_POOL' = pool[t]
          /\ pc' = [pc EXCEPT ![t] = "query"]
          /\ UNCHANGED <<locals, panic, result>>
     ELSE /\ Leave(t, "panicked", "AlreadyInitializedError", NoResult)
          /\ UNCHANGED DATABASE_POOL
  /\ UNCHANGED <<ingestVars, queryVars, path, inodes, complete, updates, lastRebuilt>>

\* the operation runs its statement on a connection of the cached pool
Query(t) ==
  /\ pc[t] = "query"
  /\ \E req \in ReadRequests :
       LET r == run_request(inodes[DATABASE_POOL], req)
           o == Outcome(t, "read", "none", r.out, "none", DATABASE_POOL, lastRebuilt)
       IN IF r.out = "panic"
          THEN Leave(t, "panicked", r.value, o)
          ELSE Leave(t, "return", panic[t], o)
  /\ UNCHANGED <<ingestVars, queryVars, path, inodes, complete, DATABASE_POOL, updates,
                 lastRebuilt>>

\* the caller has its answer
Return(t) ==
  /\ pc[t] = "return"
  /\ pc' = [pc EXCEPT ![t] = "idle"]
  /\ result' = [result EXCEPT ![t] = NoResult]
  /\ UNCHANGED <<ingestVars, queryVars, path, inodes, complete, DATABASE_POOL, locals, panic,
                 updates, lastRebuilt>>

\* update_database: if db_path.exists()
Call_update_database(t) ==
  /\ pc[t] = "idle"
  /\ updates < MaxUpdates
  /\ updates' = updates + 1
  /\ op' = [op EXCEPT ![t] = "update"]
  /\ after' = [after EXCEPT ![t] = lastRebuilt]
  /\ pc' = [pc EXCEPT ![t] = IF path # 0 THEN "upd_remove" ELSE "save_open"]
  /\ UNCHANGED <<ingestVars, queryVars, path, inodes, complete, DATABASE_POOL, conn, pool, isect,
                 panic, existed, dl, sawSet, lastRebuilt, result>>

\* tokio::fs::remove_file(&db_path).await? : the name goes, the inode stays for
\* whoever has it open
Upd_remove(t) ==
  /\ pc[t] = "upd_remove"
  /\ IF path # 0
     THEN /\ path' = 0
          /\ pc' = [pc EXCEPT ![t] = "save_open"]
          /\ UNCHANGED <<locals, panic, result>>
     ELSE /\ Leave(t, "return", panic[t],
                   Outcome(t, "update_database", "none", "Err", "NotFound", 0,
                           lastRebuilt))
          /\ UNCHANGED path
  /\ UNCHANGED <<ingestVars, queryVars, inodes, complete, DATABASE_POOL, updates, lastRebuilt>>

ClientNext ==
  \E t \in Callers :
    \/ Call_get(t)
    \/ Call_search_symbols_unknown(t)
    \/ Init_exists(t)
    \/ Download_ok(t)
    \/ Download_fails(t)
    \/ Save_open(t)
    \/ Sweep(t)
    \/ Pool_new(t)
    \/ Pool_set(t)
    \/ Query(t)
    \/ Return(t)
    \/ Call_update_database(t)
    \/ Upd_remove(t)

Init == ClientInit

Next == ClientNext

Spec == Init /\ [][Next]_vars

(***************************************************************************)
(* The read operations of lib.rs applied to a Store that insert_document   *)
(* has filled with records of any field values.                            *)
(***************************************************************************)
\* the Store holds at most this many rows
MaxStoreRows == 2

QueryDocs ==
  [symbol : {<<>>, <<"A">>, <<"B">>}, name : {<<"B", "&amp;", "N">>},
   category : {"Technology", "N/A"}, asset_class : {"Stocks", "ETF", "Bond"},
   exchange : {"NMS", "ZZZ"}]

QueryInit ==
  /\ listing = <<>>
  /\ IngestIdle
  /\ ClientIdle
  /\ store = create_table(connection_open(NoFile))
  /\ answer = NoAnswer

\* a record is saved into the Store, as save_symbols saves it
Store_insert ==
  /\ Len(store.rows) < MaxStoreRows
  /\ \E doc \in QueryDocs :
       LET r == save_doc(store.rows, doc)
       IN /\ r.err = "none"
          /\ r.inserted = 1
          /\ store' = [store EXCEPT !.rows = r.rows]
  /\ answer' = NoAnswer
  /\ UNCHANGED <<ingestVars, clientVars>>

\* a read operation is run on the Store
Ask ==
  /\ \E req \in ReadRequests :
       LET r == run_request(store, req)
       IN answer' = [req |-> req, out |-> r.out, value |-> r.value]
  /\ UNCHANGED <<ingestVars, clientVars, store>>

QueryNext == Store_insert \/ Ask

SpecQuery == QueryInit /\ [][QueryNext]_vars

(***************************************************************************)
(* Properties                                                              *)
(***************************************************************************)
\* the positions of a caller inside initialize_database and the set of the cell
InitPcs == {"exists", "download", "save_open", "sweep", "pool_new", "pool_set"}

Initializing(t) == op[t] = "read" /\ pc[t] \in InitPcs

IsPrefix(s, t) == Len(s) <= Len(t) /\ \A i \in 1..Len(s) : t[i] = s[i]

UniqueSymbols(rows) ==
  \A i, j \in 1..Len(rows) : rows[i].symbol = rows[j].symbol => i = j

\* C1: among callers that invoke get_database_pool while the cell is empty, at
\* most one runs initialize_database, and none panics because another caller
\* set the cell first.
C1_InitializedOnce ==
  /\ Cardinality({t \in Callers : Initializing(t)}) <= 1
  /\ \A t \in Callers : panic[t] # "AlreadyInitializedError"

\* C2: a read operation that begins after update_database returned Ok is served
\* from the Store that update rebuilt.
C2_ReadsServedByRebuiltStore ==
  \A t \in Callers :
    (result[t].op = "read" /\ result[t].after # 0 /\ result[t].rebuilt = result[t].after)
      => result[t].inode = result[t].after

\* C3: once a run of save_symbols has completed over the listing, no step of a
\* further run over the same listing changes the rows of the Store: the further
\* run inserts zero rows and the row count stays what the first run left.
C3_Idempotent ==
  [][firstCount # -1 => /\ db'.rows = db.rows
                        /\ Len(db'.rows) = firstCount
                        /\ inserted' = 0 \/ inserted' = inserted]_vars

\* a further run over a non-empty Store has completed and inserted nothing
C3_SecondRunCompleted ==
  /\ status = "Ok"
  /\ firstCount > 0
  /\ inserted = 0
  /\ Len(db.rows) = firstCount

C5_FetchFailureAborts ==
  /\ [](/\ IsPrefix(fetchLog, SweepOrder)
        /\ ~lastOk => status = "FetchError"
        /\ status = "FetchError" => ~lastOk
        /\ status = "Ok" => Len(fetchLog) = NumSectors * NumPrefixes)
  /\ [][/\ ~lastOk' => db'.rows = db.rows
        /\ status = "FetchError" => (fetchLog' = fetchLog \/ fetchLog' = <<>>)]_vars

\* a request failed after records had been inserted, and the run ended there
C5_AbortedMidway ==
  /\ status = "FetchError"
  /\ Len(fetchLog) > 1
  /\ Len(fetchLog) < NumSectors * NumPrefixes
  /\ Len(db.rows) > 0

C7_UnknownLabelIsError ==
  \A t \in Callers :
    (result[t].op = "search_symbols" /\ result[t].label \notin SearchLabels)
      => /\ result[t].out = "Err"
         /\ result[t].value = "ConfigurationError"
         /\ pc[t] # "panicked"

\* C8: a first operation downloads only when the file is absent and ingests only
\* when that download failed; with the file present it does neither; an
\* operation that finds the cell set neither checks, downloads nor ingests; and
\* the cell, once set, keeps its value.
C8_Lifecycle ==
  /\ [](\A t \in Callers :
          /\ sawSet[t] => ~Initializing(t)
          /\ (op[t] = "read" /\ pc[t] = "download") => ~existed[t] /\ dl[t] = "none"
          /\ (op[t] = "read" /\ pc[t] \in {"save_open", "sweep"})
               => ~existed[t] /\ dl[t] = "failed"
          /\ (op[t] = "read" /\ existed[t])
               => dl[t] = "none" /\ pc[t] \in {"pool_new", "pool_set", "query"}
          /\ (op[t] = "read" /\ pc[t] \in {"pool_new", "pool_set"} /\ ~existed[t])
               => dl[t] # "none")
  /\ [][DATABASE_POOL # 0 => DATABASE_POOL' = DATABASE_POOL]_vars

\* a read operation found the cell set while the file it was built on is gone
C8_ReadyAfterFileRemoved ==
  \E t \in Callers : sawSet[t] /\ pc[t] = "query" /\ path # DATABASE_POOL

\* C9: every step of save_symbols leaves the rows already in the Store as they
\* are, in runs that return Ok and in runs that abort alike.
C9_AppendOnly ==
  [][IsPrefix(db.rows, db'.rows)]_vars

\* a run met the stored symbol again with another name, category, asset class
\* and exchange, and then aborted; the stored row is the first one
C9_SameSymbolOtherFields ==
  /\ listing = <<[pair |-> <<1, 1>>, kind |-> 2], [pair |-> <<1, 2>>, kind |-> 3]>>
  /\ status = "FetchError"
  /\ Len(fetchLog) > 2
  /\ Len(db.rows) = 1
  /\ db.rows[1].exchange = "PCX"

\* C10: the file that serves a read operation holds a whole catalog: a
\* downloaded snapshot or the rows of an ingestion run that completed.
C10_ReadsSeeWholeStore ==
  \A t \in Callers : result[t].op = "read" => result[t].whole

====
